---- MODULE Spec2Model ----
(***************************************************************************)
(* Model of the in-memory job manager of clean_interfaces.jobs:            *)
(* MemoryJobManager (memory.py) over the Job model (models.py), the        *)
(* BaseJobManager event bus (base.py) and the error classes                *)
(* (exceptions.py).  Every manager call is one action that runs the whole  *)
(* method body; `last` records what the call returned or raised.           *)
(***************************************************************************)
EXTENDS Integers, Sequences, FiniteSets, TLC

\* ---------------------------------------------------------------- bounds
MaxClock == 0        \* time values are 0..MaxClock
MaxQueue == 2        \* length of the queue
MaxHandlers == 1     \* length of the subscriber list
MaxPage == 1         \* largest limit / offset given to list_jobs
MaxBacklog == 3      \* length of the queue under concurrent callers
MaxSuspended == 1    \* calls parked in _publish_event at one time
MaxListClock == 4    \* latest created_at of the jobs of the listing specification
MaxListPage == 2     \* largest limit / offset of the listing specification
MaxManagers == 2     \* manager instances the factory is asked for
MaxFramesInUse == 2  \* interpreter frames in use when get_next_job is called
MaxDeepExtra == 2    \* queue entries beyond the depth the interpreter allows
MaxSubscribers == 3  \* length of the subscriber list in the event specification

\* ------------------------------------------------------------ value sets
None == <<>>
Some(v) == <<v>>
Opt(S) == {None} \cup {Some(v) : v \in S}

PENDING == "pending"
QUEUED == "queued"
RUNNING == "running"
COMPLETED == "completed"
FAILED == "failed"
CANCELLED == "cancelled"
JobStatus == {PENDING, QUEUED, RUNNING, COMPLETED, FAILED, CANCELLED}
JobType == {"async", "sync"}
JobTypeInputs == {"async"}      \* the job types the callers of this model pass

JobIds == {"j1", "j2"}          \* identifiers (uuid4 strings or caller-chosen)
Payloads == {"p1"}              \* payload dictionaries
Results == {"r1"}               \* result dictionaries
Errors == {"e1"}                \* error dictionaries
Handlers == {"h1"}              \* event handler callables
Subscribers == {"h1", "h2"}     \* the handlers of the event specifications
Workers == {"w1", "w2"}         \* the callers polling get_next_job
Times == 0..MaxClock

\* started_at and completed_at are written by the manager and never read:
\* the model keeps whether each is set, not the time it holds
Stamp == "datetime"

\* ------------------------------------------------------------ exceptions
\* JobManagerError and its subclasses (exceptions.py); pydantic's
\* ValidationError is a ValueError and not part of that hierarchy.
JobManagerError == {"JobNotFoundError", "JobValidationError", "JobStateError", "JobTimeoutError"}
PydanticValidationError == "pydantic.ValidationError"

\* `fifo` is a history variable: the ids of the jobs that submit_job queued
\* and that are still queued, in the order of those calls.  `suspended`
\* holds the calls parked in _publish_event until their handlers finish.
\* `received` is a history variable: the events each handler was invoked
\* with, in order.  `others` holds the managers the factory created that
\* the caller is not addressing.  `held` is, for each worker, the job that
\* its latest get_next_job call returned (<<>>: none).
VARIABLES is_running, jobs, keys, queue, event_handlers, delivered, issued, last,
          fifo, suspended, received, others, held

vars == <<is_running, jobs, keys, queue, event_handlers, delivered, issued, last,
          fifo, suspended, received, others, held>>

\* ------------------------------------------------------- pure operators
RECURSIVE lstrip(_)
lstrip(v) == IF v # <<>> /\ Head(v) = " " THEN lstrip(Tail(v)) ELSE v

RECURSIVE rstrip(_)
rstrip(v) == IF v # <<>> /\ v[Len(v)] = " " THEN rstrip(SubSeq(v, 1, Len(v) - 1)) ELSE v

\* str.strip()
strip(v) == rstrip(lstrip(v))

\* deque.remove(x): drops the first occurrence, ValueError (swallowed) if absent
RECURSIVE remove(_, _)
remove(q, x) ==
    IF q = <<>> THEN <<>>
    ELSE IF Head(q) = x THEN Tail(q)
    ELSE <<Head(q)>> \o remove(Tail(q), x)

InSeq(q, x) == \E i \in 1..Len(q) : q[i] = x

\* datetime.now(timezone.utc) reads the wall clock, which may stand still
\* or be set back between two readings
Now == Times

\* ------------------------------------------------------------ Job model
\* Extra keyword fields of create_job: the Job fields the caller may set
\* through **kwargs (None: not given).  The callers of this model pass at
\* most one; "bogus" is a status no JobStatus has.
NoKwargs ==
    [id |-> None, status |-> None, created_at |-> None, started_at |-> None,
     completed_at |-> None, result |-> None, error |-> None]

Kwargs ==
    {NoKwargs}
    \cup {[NoKwargs EXCEPT !.id = Some(v)] : v \in JobIds}
    \cup {[NoKwargs EXCEPT !.status = Some(v)] : v \in JobStatus \cup {"bogus"}}
    \cup {[NoKwargs EXCEPT !.created_at = Some(v)] : v \in Times}
    \cup {[NoKwargs EXCEPT !.started_at = Some(Stamp)],
          [NoKwargs EXCEPT !.completed_at = Some(Stamp)]}
    \cup {[NoKwargs EXCEPT !.result = Some(v)] : v \in Results}
    \cup {[NoKwargs EXCEPT !.error = Some(v)] : v \in Errors}

\* the names the callers of this model pass to create_job
Names == {<<>>, <<" ">>, <<"a">>, <<" ", "a", " ">>}

NameValid(name) == Len(name) >= 1 /\ strip(name) # <<>>

\* pydantic accepts the keyword fields iff each validates against its type
KwargsValid(kw) == kw.status = None \/ kw.status[1] \in JobStatus

\* Job(**job_data): defaults for the fields not given, the stripped name
Job(name, job_type, payload, kw, new_id, now) ==
    [id |-> IF kw.id = None THEN new_id ELSE kw.id[1],
     name |-> strip(name),
     job_type |-> job_type,
     payload |-> payload,
     status |-> IF kw.status = None THEN PENDING ELSE kw.status[1],
     created_at |-> IF kw.created_at = None THEN now ELSE kw.created_at[1],
     started_at |-> kw.started_at,
     completed_at |-> kw.completed_at,
     result |-> kw.result,
     error |-> kw.error]

\* ---------------------------------------------------- outcome of a call
Returned(op, job_id, ret) ==
    [op |-> op, job_id |-> job_id, name |-> None, outcome |-> "ok",
     from_state |-> None, to_state |-> None, ret |-> ret, arg |-> None, discarded |-> 0]

Raised(op, job_id, kind, from_state, to_state) ==
    [op |-> op, job_id |-> job_id, name |-> None, outcome |-> kind,
     from_state |-> from_state, to_state |-> to_state, ret |-> <<>>, arg |-> None,
     discarded |-> 0]

\* the outcome of a create_job call, with the name the caller passed
Named(outcome, name) == [outcome EXCEPT !.name = Some(name)]

\* the outcome of a complete_job / fail_job call, with the result / error
\* the caller passed
WithArg(outcome, arg) == [outcome EXCEPT !.arg = Some(arg)]

\* no call is in progress: the caller has taken the outcome of its last call
Idle == Returned("idle", None, <<>>)

Ready == last = Idle

\* get_job raising the wrong class for an absent id
JobNotFoundAsStateError(op, job_id) == Raised(op, Some(job_id), "JobStateError", None, None)

\* raise JobNotFoundError(job_id), out of get_job
JobNotFoundError(op, job_id) == Raised(op, Some(job_id), "JobNotFoundError", None, None)

\* the two states passed to JobStateError in the wrong order
JobStateErrorSwapped(op, job_id, from_state, to_state) ==
    Raised(op, Some(job_id), "JobStateError", Some(to_state), Some(from_state))

\* raise JobStateError(job.status.value, <target>.value, msg)
JobStateError(op, job_id, from_state, to_state) ==
    Raised(op, Some(job_id), "JobStateError", Some(from_state), Some(to_state))

\* create_job on a stopped manager reported as a validation failure
NotRunningAsValidation(op) == Raised(op, None, "JobValidationError", None, None)

\* raise JobStateError(message=msg): create_job on a manager that is not running
NotRunningError(op) == Raised(op, None, "JobStateError", None, None)

\* Job(**job_data) raising out of create_job
ValidationError(op) == Raised(op, None, PydanticValidationError, None, None)

\* --------------------------------------------------------- event bus
\* _publish_event dropping the additional data of the event
InvocationsBare(event_type, job_id, data) ==
    [i \in 1..Len(event_handlers) |->
        [type |-> event_type, job_id |-> job_id, handler |-> event_handlers[i],
         data |-> None, state |-> "invoked"]]

\* _publish_event: one invocation per entry of the subscriber list, in order,
\* all with the same event_data; `data` is the result / error the event
\* carries, `state` whether the handler has run ("invoked": not yet).  The
\* event's timestamp (the loop's monotonic clock) is not modelled.
Invocations(event_type, job_id, data) ==
    [i \in 1..Len(event_handlers) |->
        [type |-> event_type, job_id |-> job_id, handler |-> event_handlers[i],
         data |-> data, state |-> "invoked"]]

\* _publish_event leaving the invocation of the handlers to a later time
publish_event_later(event_type, job_id, data) ==
    delivered' = <<>>

\* `delivered` lists the handler invocations made by the call in progress
publish_event(event_type, job_id, data) ==
    delivered' = Invocations(event_type, job_id, data)

\* ----------------------------------------------------------- job store
\* self._jobs is a dict: `jobs` maps its keys to the Job records, `keys`
\* is its insertion order (an assignment to a present key keeps its place)
EmptyStore == [k \in {} |-> None]

\* self._jobs[job.id] = job
StorePut(store, job) ==
    [k \in DOMAIN store \cup {job.id} |-> IF k = job.id THEN job ELSE store[k]]

KeysPut(order, job_id) == IF InSeq(order, job_id) THEN order ELSE Append(order, job_id)

\* a cancelled job may be queued again
submit_allowed_resubmit(status) == status \in {PENDING, CANCELLED}

\* a completed job may be completed again
complete_allowed_again(status) == status \in {RUNNING, COMPLETED}

\* the status checks that guard the five transitions
submit_allowed(status) == status = PENDING
start_allowed(status) == status = QUEUED
complete_allowed(status) == status = RUNNING
fail_allowed(status) == status \in {RUNNING, QUEUED}
cancel_allowed(status) == status \in {PENDING, QUEUED}

\* --------------------------------------------------------------- Init
Init ==
    /\ is_running = FALSE
    /\ jobs = EmptyStore
    /\ keys = <<>>
    /\ queue = <<>>
    /\ event_handlers = <<>>
    /\ delivered = <<>>
    /\ issued = {}
    /\ last = Idle
    /\ fifo = <<>>
    /\ suspended = <<>>
    /\ received = [h \in Subscribers |-> <<>>]
    /\ others = <<>>
    /\ held = [w \in Workers |-> <<>>]

\* ------------------------------------------------------------ start/stop
\* start() building the manager's collections anew
StartReinitialises ==
    /\ Ready
    /\ is_running' = TRUE
    /\ jobs' = EmptyStore
    /\ keys' = <<>>
    /\ queue' = <<>>
    /\ fifo' = <<>>
    /\ last' = Returned("start", None, <<>>)
    /\ UNCHANGED <<event_handlers, delivered, issued, suspended, received, others, held>>

Start ==
    /\ Ready
    /\ IF is_running
       THEN UNCHANGED is_running
       ELSE is_running' = TRUE
    /\ last' = Returned("start", None, <<>>)
    /\ UNCHANGED <<jobs, keys, queue, event_handlers, delivered, issued, fifo, suspended, received, others, held>>

\* stop() clearing the store and leaving the queue
StopKeepsQueue ==
    /\ Ready
    /\ IF ~is_running
       THEN UNCHANGED <<is_running, jobs, keys>>
       ELSE /\ is_running' = FALSE
            /\ jobs' = EmptyStore
            /\ keys' = <<>>
    /\ last' = Returned("stop", None, <<>>)
    /\ UNCHANGED <<queue, fifo, event_handlers, delivered, issued, suspended, received, others, held>>

\* stop() dropping the subscribers with the jobs
StopDroppingSubscribers ==
    /\ Ready
    /\ IF ~is_running
       THEN UNCHANGED <<is_running, jobs, keys, queue, fifo, event_handlers>>
       ELSE /\ is_running' = FALSE
            /\ jobs' = EmptyStore
            /\ keys' = <<>>
            /\ queue' = <<>>
            /\ fifo' = <<>>
            /\ event_handlers' = <<>>
    /\ last' = Returned("stop", None, <<>>)
    /\ UNCHANGED <<delivered, issued, suspended, received, others, held>>

\* stop() clearing the queue and leaving the store
StopKeepsJobs ==
    /\ Ready
    /\ IF ~is_running
       THEN UNCHANGED <<is_running, queue, fifo>>
       ELSE /\ is_running' = FALSE
            /\ queue' = <<>>
            /\ fifo' = <<>>
    /\ last' = Returned("stop", None, <<>>)
    /\ UNCHANGED <<jobs, keys, event_handlers, delivered, issued, suspended, received, others, held>>

Stop ==
    /\ Ready
    /\ IF ~is_running
       THEN UNCHANGED <<is_running, jobs, keys, queue, fifo>>
       ELSE /\ is_running' = FALSE
            /\ jobs' = EmptyStore
            /\ keys' = <<>>
            /\ queue' = <<>>
            /\ fifo' = <<>>
    /\ last' = Returned("stop", None, <<>>)
    /\ UNCHANGED <<event_handlers, delivered, issued, suspended, received, others, held>>

\* ------------------------------------------------------------ create_job
CreateJob(name, job_type, payload, kw) ==
    /\ Ready
    /\ IF ~is_running
       THEN /\ last' = Named(NotRunningError("create_job"), name)
            /\ UNCHANGED <<is_running, jobs, keys, queue, event_handlers, delivered, issued, fifo, suspended, received, others, held>>
       ELSE IF ~(NameValid(name) /\ KwargsValid(kw))
       THEN /\ last' = Named(ValidationError("create_job"), name)
            /\ UNCHANGED <<is_running, jobs, keys, queue, event_handlers, delivered, issued, fifo, suspended, received, others, held>>
       ELSE /\ \E new_id \in (IF kw.id = None THEN JobIds \ issued ELSE {kw.id[1]}),
                  now \in Now :
                  LET job == Job(name, job_type, payload, kw, new_id, now) IN
                  /\ jobs' = StorePut(jobs, job)
                  /\ keys' = KeysPut(keys, job.id)
                  /\ issued' = issued \cup {job.id}
                  /\ fifo' = remove(fifo, job.id)
                  /\ publish_event("job_created", job.id, None)
                  /\ last' = Named(Returned("create_job", Some(job.id), <<job.id>>), name)
            /\ UNCHANGED <<is_running, queue, event_handlers, suspended, received, others, held>>

\* --------------------------------------------------------------- get_job
GetJob(job_id) ==
    /\ Ready
    /\ IF job_id \notin DOMAIN jobs
       THEN last' = JobNotFoundError("get_job", job_id)
       ELSE last' = Returned("get_job", Some(job_id), <<job_id>>)
    /\ UNCHANGED <<is_running, jobs, keys, queue, event_handlers, delivered, issued, fifo, suspended, received, others, held>>

\* ------------------------------------------------------------ submit_job
\* submit_job while the queue is shorter than `room`
SubmitJobWithin(job_id, room) ==
    /\ Ready
    /\ IF job_id \notin DOMAIN jobs
       THEN /\ last' = JobNotFoundError("submit_job", job_id)
            /\ UNCHANGED <<is_running, jobs, keys, queue, event_handlers, delivered, issued, fifo, suspended, received, others, held>>
       ELSE IF ~submit_allowed(jobs[job_id].status)
       THEN /\ last' = JobStateError("submit_job", job_id, jobs[job_id].status, QUEUED)
            /\ UNCHANGED <<is_running, jobs, keys, queue, event_handlers, delivered, issued, fifo, suspended, received, others, held>>
       ELSE /\ Len(queue) < room
            /\ jobs' = [jobs EXCEPT ![job_id].status = QUEUED]
            /\ queue' = Append(queue, job_id)
            /\ fifo' = Append(fifo, job_id)
            /\ publish_event("job_queued", job_id, None)
            /\ last' = Returned("submit_job", Some(job_id), <<>>)
            /\ UNCHANGED <<is_running, keys, event_handlers, issued, suspended, received, others, held>>

SubmitJob(job_id) == SubmitJobWithin(job_id, MaxQueue)

\* ------------------------------------------------------------- start_job
\* start_job publishing job_started before it takes the id out of the queue
StartJobPublishingFirst(job_id) ==
    /\ Ready
    /\ IF job_id \notin DOMAIN jobs
       THEN /\ last' = JobNotFoundError("start_job", job_id)
            /\ UNCHANGED <<is_running, jobs, keys, queue, event_handlers, delivered, issued, fifo, suspended, received, others, held>>
       ELSE IF ~start_allowed(jobs[job_id].status)
       THEN /\ last' = JobStateError("start_job", job_id, jobs[job_id].status, RUNNING)
            /\ UNCHANGED <<is_running, jobs, keys, queue, event_handlers, delivered, issued, fifo, suspended, received, others, held>>
       ELSE /\ jobs' = [jobs EXCEPT ![job_id].status = RUNNING,
                             ![job_id].started_at = Some(Stamp)]
            /\ queue' = queue
            /\ fifo' = remove(fifo, job_id)
            /\ publish_event("job_started", job_id, None)
            /\ last' = Returned("start_job", Some(job_id), <<>>)
            /\ UNCHANGED <<is_running, keys, event_handlers, issued, suspended, received, others, held>>

StartJob(job_id) ==
    /\ Ready
    /\ IF job_id \notin DOMAIN jobs
       THEN /\ last' = JobNotFoundError("start_job", job_id)
            /\ UNCHANGED <<is_running, jobs, keys, queue, event_handlers, delivered, issued, fifo, suspended, received, others, held>>
       ELSE IF ~start_allowed(jobs[job_id].status)
       THEN /\ last' = JobStateError("start_job", job_id, jobs[job_id].status, RUNNING)
            /\ UNCHANGED <<is_running, jobs, keys, queue, event_handlers, delivered, issued, fifo, suspended, received, others, held>>
       ELSE /\ jobs' = [jobs EXCEPT ![job_id].status = RUNNING,
                             ![job_id].started_at = Some(Stamp)]
            /\ queue' = remove(queue, job_id)
            /\ fifo' = remove(fifo, job_id)
            /\ publish_event("job_started", job_id, None)
            /\ last' = Returned("start_job", Some(job_id), <<>>)
            /\ UNCHANGED <<is_running, keys, event_handlers, issued, suspended, received, others, held>>

\* ---------------------------------------------------------- complete_job
CompleteJob(job_id, result) ==
    /\ Ready
    /\ IF job_id \notin DOMAIN jobs
       THEN /\ last' = WithArg(JobNotFoundError("complete_job", job_id), result)
            /\ UNCHANGED <<is_running, jobs, keys, queue, event_handlers, delivered, issued, fifo, suspended, received, others, held>>
       ELSE IF ~complete_allowed(jobs[job_id].status)
       THEN /\ last' = WithArg(JobStateError("complete_job", job_id, jobs[job_id].status,
                                                 COMPLETED), result)
            /\ UNCHANGED <<is_running, jobs, keys, queue, event_handlers, delivered, issued, fifo, suspended, received, others, held>>
       ELSE /\ jobs' = [jobs EXCEPT ![job_id].status = COMPLETED,
                             ![job_id].result = Some(result),
                             ![job_id].completed_at = Some(Stamp)]
            /\ publish_event("job_completed", job_id, Some(result))
            /\ last' = WithArg(Returned("complete_job", Some(job_id), <<>>), result)
            /\ UNCHANGED <<is_running, keys, queue, event_handlers, issued, fifo, suspended, received, others, held>>

\* -------------------------------------------------------------- fail_job
\* fail_job writing the error into the payload field
FailJobIntoPayload(job_id, error) ==
    /\ Ready
    /\ IF job_id \notin DOMAIN jobs
       THEN /\ last' = WithArg(JobNotFoundError("fail_job", job_id), error)
            /\ UNCHANGED <<is_running, jobs, keys, queue, event_handlers, delivered, issued, fifo, suspended, received, others, held>>
       ELSE IF ~fail_allowed(jobs[job_id].status)
       THEN /\ last' = WithArg(JobStateError("fail_job", job_id, jobs[job_id].status, FAILED),
                               error)
            /\ UNCHANGED <<is_running, jobs, keys, queue, event_handlers, delivered, issued, fifo, suspended, received, others, held>>
       ELSE /\ jobs' = [jobs EXCEPT ![job_id].status = FAILED,
                             ![job_id].payload = error,
                             ![job_id].completed_at = Some(Stamp)]
            /\ queue' = remove(queue, job_id)
            /\ fifo' = remove(fifo, job_id)
            /\ publish_event("job_failed", job_id, Some(error))
            /\ last' = WithArg(Returned("fail_job", Some(job_id), <<>>), error)
            /\ UNCHANGED <<is_running, keys, event_handlers, issued, suspended, received, others, held>>

FailJob(job_id, error) ==
    /\ Ready
    /\ IF job_id \notin DOMAIN jobs
       THEN /\ last' = WithArg(JobNotFoundError("fail_job", job_id), error)
            /\ UNCHANGED <<is_running, jobs, keys, queue, event_handlers, delivered, issued, fifo, suspended, received, others, held>>
       ELSE IF ~fail_allowed(jobs[job_id].status)
       THEN /\ last' = WithArg(JobStateError("fail_job", job_id, jobs[job_id].status, FAILED),
                               error)
            /\ UNCHANGED <<is_running, jobs, keys, queue, event_handlers, delivered, issued, fifo, suspended, received, others, held>>
       ELSE /\ jobs' = [jobs EXCEPT ![job_id].status = FAILED,
                             ![job_id].error = Some(error),
                             ![job_id].completed_at = Some(Stamp)]
            /\ queue' = remove(queue, job_id)
            /\ fifo' = remove(fifo, job_id)
            /\ publish_event("job_failed", job_id, Some(error))
            /\ last' = WithArg(Returned("fail_job", Some(job_id), <<>>), error)
            /\ UNCHANGED <<is_running, keys, event_handlers, issued, suspended, received, others, held>>

\* ------------------------------------------------------------ cancel_job
CancelJob(job_id) ==
    /\ Ready
    /\ IF job_id \notin DOMAIN jobs
       THEN /\ last' = JobNotFoundError("cancel_job", job_id)
            /\ UNCHANGED <<is_running, jobs, keys, queue, event_handlers, delivered, issued, fifo, suspended, received, others, held>>
       ELSE IF ~cancel_allowed(jobs[job_id].status)
       THEN /\ last' = JobStateError("cancel_job", job_id, jobs[job_id].status, CANCELLED)
            /\ UNCHANGED <<is_running, jobs, keys, queue, event_handlers, delivered, issued, fifo, suspended, received, others, held>>
       ELSE /\ jobs' = [jobs EXCEPT ![job_id].status = CANCELLED,
                             ![job_id].completed_at = Some(Stamp)]
            /\ queue' = remove(queue, job_id)
            /\ fifo' = remove(fifo, job_id)
            /\ publish_event("job_cancelled", job_id, None)
            /\ last' = Returned("cancel_job", Some(job_id), <<>>)
            /\ UNCHANGED <<is_running, keys, event_handlers, issued, suspended, received, others, held>>

\* ---------------------------------------------------------- get_next_job
\* get_next_job taking the job it returns out of the queue
next_job_popping(q) ==
    LET valid == {i \in 1..Len(q) : q[i] \in DOMAIN jobs /\ jobs[q[i]].status = QUEUED}
    IN IF valid = {}
       THEN [queue |-> <<>>, ret |-> <<>>, discarded |-> Len(q)]
       ELSE LET first == CHOOSE i \in valid : \A j \in valid : i <= j
            IN [queue |-> SubSeq(q, first + 1, Len(q)), ret |-> <<q[first]>>,
                discarded |-> first - 1]

\* the queue left and the job returned by get_next_job on queue q: stale
\* heads (job missing, or not queued) are popped until a queued job leads;
\* `discarded` counts the popleft calls
RECURSIVE next_job(_)
next_job(q) ==
    IF q = <<>> THEN [queue |-> q, ret |-> <<>>, discarded |-> 0]
    ELSE IF Head(q) \in DOMAIN jobs /\ jobs[Head(q)].status = QUEUED
    THEN [queue |-> q, ret |-> <<Head(q)>>, discarded |-> 0]
    ELSE [next_job(Tail(q)) EXCEPT !.discarded = @ + 1]

\* The retry is a nested call, `return await self.get_next_job()`, one per
\* stale head.  The interpreter allows RecursionLimit frames (CPython's
\* default) and raises RecursionError beyond; with `frames` of them in use
\* at the call, RecursionLimit - frames nested calls have popped their
\* head when the next one fails, and the error passes through all of them.
RecursionLimit == 1000

valid_head(job_id) == job_id \in DOMAIN jobs /\ jobs[job_id].status = QUEUED

Overflows(q, depth) == Len(q) >= depth /\ \A i \in 1..depth : ~valid_head(q[i])

\* get_next_job called by `worker` (None: by a caller the model does not
\* follow), who keeps the job returned
GetNextJobBy(worker) ==
    /\ Ready
    /\ \E frames \in 1..MaxFramesInUse :
          LET depth == RecursionLimit - frames
          IN IF Overflows(queue, depth)
             THEN /\ queue' = SubSeq(queue, depth + 1, Len(queue))
                  /\ last' = [Raised("get_next_job", None, "RecursionError", None, None)
                                 EXCEPT !.discarded = depth]
                  /\ held' = held
             ELSE /\ queue' = next_job(queue).queue
                  /\ last' = [Returned("get_next_job", None, next_job(queue).ret)
                                 EXCEPT !.discarded = next_job(queue).discarded]
                  /\ held' = IF worker = None THEN held
                             ELSE [held EXCEPT ![worker[1]] = next_job(queue).ret]
    /\ UNCHANGED <<is_running, jobs, keys, event_handlers, delivered, issued, fifo, suspended, received, others>>

GetNextJob == GetNextJobBy(None)

\* ------------------------------------------------------------- list_jobs
\* list.sort(key=created_at, reverse=True) is stable: ties keep their order
RECURSIVE insert_sorted(_, _)
insert_sorted(sorted, job_id) ==
    IF sorted = <<>> THEN <<job_id>>
    ELSE IF jobs[Head(sorted)].created_at >= jobs[job_id].created_at
    THEN <<Head(sorted)>> \o insert_sorted(Tail(sorted), job_id)
    ELSE <<job_id>> \o sorted

RECURSIVE sort_newest_first(_)
sort_newest_first(ids) ==
    IF ids = <<>> THEN <<>>
    ELSE insert_sorted(sort_newest_first(SubSeq(ids, 1, Len(ids) - 1)), ids[Len(ids)])

filter_status(ids, status) ==
    IF status = None THEN ids
    ELSE SelectSeq(ids, LAMBDA k : jobs[k].status = status[1])

\* jobs[start_idx:end_idx] with end_idx = limit: the limit counted from the
\* start of the list instead of from the offset
slice_to_limit(ids, offset, limit) ==
    LET end_idx == IF limit = None THEN Len(ids)
                   ELSE IF limit[1] < Len(ids) THEN limit[1] ELSE Len(ids)
    IN SubSeq(ids, offset + 1, end_idx)

\* jobs[start_idx:end_idx] for non-negative indices
slice(ids, offset, limit) ==
    LET end_idx == IF limit = None THEN Len(ids)
                   ELSE IF offset + limit[1] < Len(ids) THEN offset + limit[1] ELSE Len(ids)
    IN SubSeq(ids, offset + 1, end_idx)

list_jobs(status, limit, offset) ==
    slice(sort_newest_first(filter_status(keys, status)), offset, limit)

\* list_jobs, the outcome noting `arg` (the arguments of the call, or None)
ListJobsNoting(status, limit, offset, arg) ==
    /\ Ready
    /\ last' = [Returned("list_jobs", None, list_jobs(status, limit, offset)) EXCEPT !.arg = arg]
    /\ UNCHANGED <<is_running, jobs, keys, queue, event_handlers, delivered, issued, fifo, suspended, received, others, held>>

ListJobs(status, limit, offset) == ListJobsNoting(status, limit, offset, None)

\* --------------------------------------------------------- subscriptions
\* subscribe_to_events while the subscriber list is shorter than `room`
SubscribeWithin(handler, room) ==
    /\ Ready
    /\ Len(event_handlers) < room
    /\ event_handlers' = Append(event_handlers, handler)
    /\ last' = Returned("subscribe_to_events", None, <<>>)
    /\ UNCHANGED <<is_running, jobs, keys, queue, delivered, issued, fifo, suspended, received, others, held>>

SubscribeToEvents(handler) == SubscribeWithin(handler, MaxHandlers)

UnsubscribeFromEvents(handler) ==
    /\ Ready
    /\ IF InSeq(event_handlers, handler)
       THEN event_handlers' = remove(event_handlers, handler)
       ELSE UNCHANGED event_handlers
    /\ last' = Returned("unsubscribe_from_events", None, <<>>)
    /\ UNCHANGED <<is_running, jobs, keys, queue, delivered, issued, fifo, suspended, received, others, held>>

\* the awaiting caller resumes with the outcome of its call
Return ==
    /\ ~Ready
    /\ last' = Idle
    /\ delivered' = <<>>
    /\ UNCHANGED <<is_running, jobs, keys, queue, event_handlers, issued, fifo, suspended, received, others, held>>

\* ------------------------------------------------------------------ Next
Next ==
    \/ Return
    \/ Start
    \/ Stop
    \/ \E name \in Names, job_type \in JobTypeInputs, payload \in Payloads, kw \in Kwargs :
          CreateJob(name, job_type, payload, kw)
    \/ \E job_id \in JobIds : GetJob(job_id)
    \/ \E status \in Opt(JobStatus), limit \in Opt(0..MaxPage), offset \in 0..MaxPage :
          ListJobs(status, limit, offset)
    \/ \E job_id \in JobIds : SubmitJob(job_id)
    \/ \E job_id \in JobIds : StartJob(job_id)
    \/ \E job_id \in JobIds, result \in Results : CompleteJob(job_id, result)
    \/ \E job_id \in JobIds, error \in Errors : FailJob(job_id, error)
    \/ \E job_id \in JobIds : CancelJob(job_id)
    \/ GetNextJob
    \/ \E handler \in Handlers : SubscribeToEvents(handler)
    \/ \E handler \in Handlers : UnsubscribeFromEvents(handler)

Spec == Init /\ [][Next]_vars

\* ---------------------------------------------------- concurrent callers
\* A call that invoked handlers awaits them in asyncio.gather: the caller
\* is parked with the outcome it will get, and other callers run.
Suspend ==
    /\ ~Ready
    /\ delivered # <<>>
    /\ Len(suspended) < MaxSuspended
    /\ suspended' = Append(suspended, [call |-> last, delivered |-> delivered])
    /\ last' = Idle
    /\ delivered' = <<>>
    /\ UNCHANGED <<is_running, jobs, keys, queue, event_handlers, issued, fifo, received, others, held>>

\* the handlers of a parked call have finished: gather returns to it
Resume(i) ==
    /\ Ready
    /\ i \in DOMAIN suspended
    /\ last' = suspended[i].call
    /\ delivered' = suspended[i].delivered
    /\ suspended' = [j \in 1..(Len(suspended) - 1) |->
                        IF j < i THEN suspended[j] ELSE suspended[j + 1]]
    /\ UNCHANGED <<is_running, jobs, keys, queue, event_handlers, issued, fifo, received, others, held>>

\* the keyword fields the concurrent callers pass to create_job
IdKwargs == {kw \in Kwargs : kw = NoKwargs \/ kw.id # None}

NextConcurrent ==
    \/ Return
    \/ Suspend
    \/ \E i \in 1..MaxSuspended : Resume(i)
    \/ Start
    \/ Stop
    \/ \E job_type \in JobTypeInputs, payload \in Payloads, kw \in IdKwargs :
          CreateJob(<<"a">>, job_type, payload, kw)
    \/ \E job_id \in JobIds : SubmitJobWithin(job_id, MaxBacklog)
    \/ \E job_id \in JobIds : StartJob(job_id)
    \/ \E job_id \in JobIds, result \in Results : CompleteJob(job_id, result)
    \/ \E job_id \in JobIds, error \in Errors : FailJob(job_id, error)
    \/ \E job_id \in JobIds : CancelJob(job_id)
    \/ GetNextJob
    \/ \E handler \in Handlers : SubscribeToEvents(handler)

SpecConcurrent == Init /\ [][NextConcurrent]_vars

\* ------------------------------------------------- interleaved callers
\* Callers run every lifecycle operation and stop() while one call at a
\* time waits for its handlers in asyncio.gather.
SuspendAlone ==
    /\ suspended = <<>>
    /\ Suspend

NextInterleaved ==
    \/ Return
    \/ SuspendAlone
    \/ \E i \in 1..MaxSuspended : Resume(i)
    \/ Start
    \/ Stop
    \/ \E job_type \in JobTypeInputs, payload \in Payloads, kw \in IdKwargs :
          CreateJob(<<"a">>, job_type, payload, kw)
    \/ \E job_id \in JobIds : SubmitJobWithin(job_id, MaxQueue)
    \/ \E job_id \in JobIds : StartJob(job_id)
    \/ \E job_id \in JobIds, result \in Results : CompleteJob(job_id, result)
    \/ \E job_id \in JobIds, error \in Errors : FailJob(job_id, error)
    \/ \E job_id \in JobIds : CancelJob(job_id)
    \/ \E handler \in Handlers : SubscribeToEvents(handler)

SpecInterleaved == Init /\ [][NextInterleaved]_vars

\* --------------------------------------------------------- handler runs
\* the event an invocation hands to its handler
EventOf(invocation) ==
    [type |-> invocation.type, job_id |-> invocation.job_id, data |-> invocation.data]

\* the first failing handler making _publish_event raise into the operation
RunHandlersAborting(failing) ==
    /\ ~Ready
    /\ delivered # <<>>
    /\ \A i \in DOMAIN delivered : delivered[i].state = "invoked"
    /\ failing \subseteq DOMAIN delivered
    /\ delivered' = [i \in DOMAIN delivered |->
                        [delivered[i] EXCEPT !.state = IF i \in failing THEN "failed"
                                                                       ELSE "done"]]
    /\ received' = [h \in Subscribers |->
                        received[h] \o
                        [i \in 1..Len(SelectSeq(delivered, LAMBDA d : d.handler = h)) |->
                            EventOf(SelectSeq(delivered, LAMBDA d : d.handler = h)[i])]]
    /\ last' = IF failing = {} THEN last
               ELSE Raised(last.op, last.job_id, "HandlerError", None, None)
    /\ UNCHANGED <<is_running, jobs, keys, queue, event_handlers, issued, fifo,
                   suspended, others, held>>

\* await asyncio.gather(*tasks, return_exceptions=True): every handler of
\* the call in progress runs with the event; the handlers in `failing`
\* raise, and gather keeps their exceptions as results
RunHandlers(failing) ==
    /\ ~Ready
    /\ delivered # <<>>
    /\ \A i \in DOMAIN delivered : delivered[i].state = "invoked"
    /\ failing \subseteq DOMAIN delivered
    /\ delivered' = [i \in DOMAIN delivered |->
                        [delivered[i] EXCEPT !.state = IF i \in failing THEN "failed"
                                                                       ELSE "done"]]
    /\ received' = [h \in Subscribers |->
                        received[h] \o
                        [i \in 1..Len(SelectSeq(delivered, LAMBDA d : d.handler = h)) |->
                            EventOf(SelectSeq(delivered, LAMBDA d : d.handler = h)[i])]]
    /\ UNCHANGED <<is_running, jobs, keys, queue, event_handlers, issued, last, fifo,
                   suspended, others, held>>

\* the call returns once gather has collected every handler
ReturnHandled ==
    /\ \A i \in DOMAIN delivered : delivered[i].state # "invoked"
    /\ Return

\* the subscribers of the event specification register before the first
\* job is created, so that all of them are registered over the same period
SubscribeEarly(handler) ==
    /\ issued = {}
    /\ SubscribeWithin(handler, MaxSubscribers)

NextEvents ==
    \/ ReturnHandled
    \/ \E failing \in SUBSET (1..MaxSubscribers) : RunHandlers(failing)
    \/ Start
    \/ \E job_type \in JobTypeInputs, payload \in Payloads :
          CreateJob(<<"a">>, job_type, payload, NoKwargs)
    \/ \E job_id \in JobIds : SubmitJob(job_id)
    \/ \E job_id \in JobIds : StartJob(job_id)
    \/ \E job_id \in JobIds, result \in Results : CompleteJob(job_id, result)
    \/ \E job_id \in JobIds, error \in Errors : FailJob(job_id, error)
    \/ \E job_id \in JobIds : CancelJob(job_id)
    \/ \E handler \in Subscribers : SubscribeEarly(handler)

SpecEvents == Init /\ [][NextEvents]_vars

\* ------------------------------------------------- handlers one by one
\* asyncio.gather runs the handler coroutines concurrently: each finishes
\* on its own, whatever the others do, and the operation waits for all of
\* them while the event loop runs other callers.

\* handlers awaited one after the other, in subscription order
HandlerEndsInTurn(i, fails) ==
    /\ ~Ready
    /\ i \in DOMAIN delivered
    /\ delivered[i].state = "invoked"
    /\ \A j \in 1..(i - 1) : delivered[j].state # "invoked"
    /\ delivered' = [delivered EXCEPT ![i].state = IF fails THEN "failed" ELSE "done"]
    /\ received' = [received EXCEPT ![delivered[i].handler] = Append(@, EventOf(delivered[i]))]
    /\ UNCHANGED <<is_running, jobs, keys, queue, event_handlers, issued, last, fifo,
                   suspended, others, held>>

\* the i-th handler coroutine of the call in progress finishes: it returns,
\* or it raises and gather keeps the exception
HandlerEnds(i, fails) ==
    /\ ~Ready
    /\ i \in DOMAIN delivered
    /\ delivered[i].state = "invoked"
    /\ delivered' = [delivered EXCEPT ![i].state = IF fails THEN "failed" ELSE "done"]
    /\ received' = [received EXCEPT ![delivered[i].handler] = Append(@, EventOf(delivered[i]))]
    /\ UNCHANGED <<is_running, jobs, keys, queue, event_handlers, issued, last, fifo,
                   suspended, others, held>>

\* the call waits in gather for a handler that is still running, and the
\* event loop turns to another caller; one call at a time waits like this
SuspendRunning ==
    /\ suspended = <<>>
    /\ \E i \in DOMAIN delivered : delivered[i].state = "invoked"
    /\ Suspend

\* the subscribers of this specification register once each, before the
\* first job is created
SubscribeOnce(handler) ==
    /\ ~InSeq(event_handlers, handler)
    /\ SubscribeEarly(handler)

NextDispatch ==
    \/ ReturnHandled
    \/ \E i \in 1..MaxSubscribers, fails \in BOOLEAN : HandlerEnds(i, fails)
    \/ SuspendRunning
    \/ \E i \in 1..MaxSuspended : Resume(i)
    \/ Start
    \/ \E job_type \in JobTypeInputs, payload \in Payloads :
          CreateJob(<<"a">>, job_type, payload, NoKwargs)
    \/ \E job_id \in JobIds : SubmitJob(job_id)
    \/ \E handler \in Subscribers : SubscribeOnce(handler)

\* the event loop runs every ready task in turn: a handler that can finish
\* does, a waiting call is resumed, a call whose handlers are done returns
DispatchFairness ==
    /\ SF_vars(\E i \in 1..MaxSubscribers, fails \in BOOLEAN : HandlerEnds(i, fails))
    /\ SF_vars(\E i \in 1..MaxSuspended : Resume(i))
    /\ SF_vars(ReturnHandled)

SpecDispatch == Init /\ [][NextDispatch]_vars /\ DispatchFairness

\* ------------------------------------------------------ returned handles
\* create_job, get_job, list_jobs and get_next_job return the Job objects
\* the store holds (Job is a mutable pydantic model, assignments are not
\* validated): the caller assigns to the status of a Job the call in
\* `last` returned.
MutateReturned(job_id, status) ==
    /\ ~Ready
    /\ last.outcome = "ok"
    /\ last.op \in {"create_job", "get_job", "list_jobs", "get_next_job"}
    /\ InSeq(last.ret, job_id)
    /\ job_id \in DOMAIN jobs
    /\ jobs[job_id].status # status
    /\ jobs' = [jobs EXCEPT ![job_id].status = status]
    /\ fifo' = IF jobs[job_id].status = QUEUED THEN remove(fifo, job_id) ELSE fifo
    /\ UNCHANGED <<is_running, keys, queue, event_handlers, delivered, issued, last,
                   suspended, received, others, held>>

\* the statuses the callers of this model assign
AssignedStatuses == {PENDING, COMPLETED}

NextHandles ==
    \/ Return
    \/ Start
    \/ \E job_type \in JobTypeInputs, payload \in Payloads :
          CreateJob(<<"a">>, job_type, payload, NoKwargs)
    \/ \E job_id \in JobIds : GetJob(job_id)
    \/ ListJobs(None, None, 0)
    \/ \E job_id \in JobIds : SubmitJob(job_id)
    \/ \E job_id \in JobIds : StartJob(job_id)
    \/ GetNextJob
    \/ \E job_id \in JobIds, status \in AssignedStatuses : MutateReturned(job_id, status)

SpecHandles == Init /\ [][NextHandles]_vars

\* ------------------------------------------------- listing a larger store
\* list_jobs is a function of the store alone.  This specification starts
\* from the stores that up to five create_job calls (and cancel_job of
\* none or of the older half of the jobs) leave in a running manager, with
\* every reading of the clock, and lists them.
ListedKeys == <<"k1", "k2", "k3", "k4", "k5">>
ListTimes == 0..MaxListClock
ListedStatuses == {PENDING, CANCELLED}

\* the record of a job after create_job and, if cancelled, cancel_job
ListedJob(job_id, created_at, cancelled) ==
    LET job == Job(<<"a">>, "async", "p1", NoKwargs, job_id, created_at)
    IN IF cancelled
       THEN [job EXCEPT !.status = CANCELLED, !.completed_at = Some(Stamp)]
       ELSE job

InitListing ==
    \E n \in 0..Len(ListedKeys) : \E m \in {0, n \div 2} : \E at \in [1..n -> ListTimes] :
        /\ is_running = TRUE
        /\ keys = SubSeq(ListedKeys, 1, n)
        /\ jobs = [k \in {ListedKeys[i] : i \in 1..n} |->
                      LET i == CHOOSE i \in 1..n : ListedKeys[i] = k
                      IN ListedJob(k, at[i], i <= m)]
        /\ issued = {ListedKeys[i] : i \in 1..n}
        /\ queue = <<>>
        /\ event_handlers = <<>>
        /\ delivered = <<>>
        /\ last = Idle
        /\ fifo = <<>>
        /\ suspended = <<>>
        /\ received = [h \in Subscribers |-> <<>>]
        /\ others = <<>>
        /\ held = [w \in Workers |-> <<>>]
    /\ held = [w \in Workers |-> <<>>]

NextListing ==
    \/ Return
    \/ \E status \in Opt(ListedStatuses), limit \in Opt(0..MaxListPage), offset \in 0..MaxListPage :
          ListJobsNoting(status, limit, offset, Some(<<status, limit, offset>>))

SpecListing == InitListing /\ [][NextListing]_vars

\* ----------------------------------------------------- JobManagerFactory
\* The variables is_running, jobs, keys, queue, event_handlers (and the
\* history fifo) are the attributes of the manager instance the caller is
\* using; `others` holds the attributes of the other instances the factory
\* has returned.
Current ==
    [is_running |-> is_running, jobs |-> jobs, keys |-> keys, queue |-> queue,
     event_handlers |-> event_handlers, fifo |-> fifo]

\* MemoryJobManager() with _jobs and _queue as class attributes, shared by
\* the instances
FactoryCreateSharing ==
    /\ Ready
    /\ Len(others) + 1 < MaxManagers
    /\ others' = Append(others, Current)
    /\ is_running' = FALSE
    /\ event_handlers' = <<>>
    /\ last' = Returned("create", None, <<>>)
    /\ UNCHANGED <<jobs, keys, queue, fifo, delivered, issued, suspended, received, held>>

\* JobManagerFactory.create(MEMORY): a new MemoryJobManager, which the
\* caller goes on to use
FactoryCreate ==
    /\ Ready
    /\ Len(others) + 1 < MaxManagers
    /\ others' = Append(others, Current)
    /\ is_running' = FALSE
    /\ jobs' = EmptyStore
    /\ keys' = <<>>
    /\ queue' = <<>>
    /\ event_handlers' = <<>>
    /\ fifo' = <<>>
    /\ last' = Returned("create", None, <<>>)
    /\ UNCHANGED <<delivered, issued, suspended, received, held>>

\* the caller turns to the i-th other instance
Switch(i) ==
    /\ Ready
    /\ i \in DOMAIN others
    /\ others' = [others EXCEPT ![i] = Current]
    /\ is_running' = others[i].is_running
    /\ jobs' = others[i].jobs
    /\ keys' = others[i].keys
    /\ queue' = others[i].queue
    /\ event_handlers' = others[i].event_handlers
    /\ fifo' = others[i].fifo
    /\ UNCHANGED <<delivered, issued, last, suspended, received, held>>

NextFactory ==
    \/ Return
    \/ FactoryCreate
    \/ \E i \in 1..MaxManagers : Switch(i)
    \/ Start
    \/ Stop
    \/ \E job_type \in JobTypeInputs, payload \in Payloads :
          CreateJob(<<"a">>, job_type, payload, NoKwargs)
    \/ \E job_id \in JobIds : SubmitJob(job_id)
    \/ \E job_id \in JobIds : CancelJob(job_id)
    \/ \E handler \in Handlers : SubscribeToEvents(handler)

SpecFactory == Init /\ [][NextFactory]_vars

\* ------------------------------------------------------- a deep queue
\* submit_job(j) followed by create_job(id=j) leaves one stale entry in the
\* queue and the job under j pending again.  This specification starts
\* after n such rounds on "j1", for n up to MaxDeepExtra and for n from
\* one below RecursionLimit on.
DeepLengths ==
    (0..MaxDeepExtra) \cup {RecursionLimit - 1 + d : d \in 0..MaxDeepExtra}

InitDeepQueue ==
    \E n \in DeepLengths :
        /\ is_running = TRUE
        /\ jobs = [k \in {"j1"} |->
                      Job(<<"a">>, "async", "p1", [NoKwargs EXCEPT !.id = Some("j1")], "j1", 0)]
        /\ keys = <<"j1">>
        /\ queue = [i \in 1..n |-> "j1"]
        /\ issued = {"j1"}
        /\ event_handlers = <<>>
        /\ delivered = <<>>
        /\ last = Idle
        /\ fifo = <<>>
        /\ suspended = <<>>
        /\ received = [h \in Subscribers |-> <<>>]
        /\ others = <<>>
        /\ held = [w \in Workers |-> <<>>]
    /\ held = [w \in Workers |-> <<>>]

NextDeepQueue ==
    \/ Return
    \/ GetNextJob
    \/ \E job_type \in JobTypeInputs, payload \in Payloads :
          CreateJob(<<"a">>, job_type, payload, NoKwargs)
    \/ \E job_id \in JobIds : SubmitJobWithin(job_id, RecursionLimit + MaxDeepExtra + 1)
    \/ \E job_id \in JobIds : GetJob(job_id)
    \/ Stop
    \/ Start

SpecDeepQueue == InitDeepQueue /\ [][NextDeepQueue]_vars

\* -------------------------------------------------------------- workers
\* A worker polls get_next_job and calls start_job on the job it was last
\* handed; start_job is called by workers only.  Callers create, submit,
\* cancel and finish jobs meanwhile.  No handler is subscribed, so that
\* _publish_event returns at once and every call runs to its end unsuspended.
WorkerStart(worker) ==
    /\ held[worker] # <<>>
    /\ StartJob(held[worker][1])

NextWorkers ==
    \/ Return
    \/ Start
    \/ \E job_type \in JobTypeInputs, payload \in Payloads, kw \in IdKwargs :
          CreateJob(<<"a">>, job_type, payload, kw)
    \/ \E job_id \in JobIds : SubmitJobWithin(job_id, MaxBacklog)
    \/ \E job_id \in JobIds : CancelJob(job_id)
    \/ \E job_id \in JobIds, result \in Results : CompleteJob(job_id, result)
    \/ \E worker \in Workers : GetNextJobBy(Some(worker))
    \/ \E worker \in Workers : WorkerStart(worker)

SpecWorkers == Init /\ [][NextWorkers]_vars

\* -------------------------------------------------------- subscriptions
\* Callers subscribe and unsubscribe handlers at any time, the same handler
\* more than once too, on a manager that is started and stopped and whose
\* jobs are created meanwhile.
NextSubscriptions ==
    \/ Return
    \/ Start
    \/ Stop
    \/ \E job_type \in JobTypeInputs, payload \in Payloads :
          CreateJob(<<"a">>, job_type, payload, NoKwargs)
    \/ \E job_id \in JobIds : CancelJob(job_id)
    \/ \E handler \in Subscribers : SubscribeWithin(handler, MaxSubscribers)
    \/ \E handler \in Subscribers : UnsubscribeFromEvents(handler)

SpecSubscriptions == Init /\ [][NextSubscriptions]_vars

\* =================================================================
\* Properties
\* =================================================================
TransitionOps == {"submit_job", "start_job", "complete_job", "fail_job", "cancel_job"}

Target(op) ==
    CASE op = "submit_job" -> QUEUED
      [] op = "start_job" -> RUNNING
      [] op = "complete_job" -> COMPLETED
      [] op = "fail_job" -> FAILED
      [] op = "cancel_job" -> CANCELLED

\* the transition graph of the state machine
Edges ==
    {<<PENDING, QUEUED>>, <<QUEUED, RUNNING>>, <<RUNNING, COMPLETED>>, <<RUNNING, FAILED>>,
     <<QUEUED, FAILED>>, <<PENDING, CANCELLED>>, <<QUEUED, CANCELLED>>}

Terminal == {COMPLETED, FAILED, CANCELLED}

\* the step runs the body of a call (and is not a parked call resuming)
Called == last' # last /\ suspended' = suspended

\* the step is a call of one of the five transition operations on job_id
TransitionCall(job_id) == Called /\ last'.op \in TransitionOps /\ last'.job_id = Some(job_id)

\* the step stored a newly constructed Job under job_id
Constructed(job_id) ==
    Called /\ last'.op = "create_job" /\ last'.outcome = "ok" /\ last'.job_id = Some(job_id)

\* job_id names the same Job object before and after the step
SameJob(job_id) == job_id \in DOMAIN jobs /\ job_id \in DOMAIN jobs' /\ ~Constructed(job_id)

\* C1: a transition operation on a stored job succeeds exactly when
\* (current status, target status) is an edge of the graph, on success the
\* job's status is the target, and the status of a stored job changes along
\* no other edge.
C1_TransitionGraph ==
    [][\A k \in JobIds :
          /\ (TransitionCall(k) /\ k \in DOMAIN jobs) =>
                /\ (last'.outcome = "ok") <=> (<<jobs[k].status, Target(last'.op)>> \in Edges)
                /\ (last'.outcome = "ok") => jobs'[k].status = Target(last'.op)
          /\ SameJob(k) =>
                \/ jobs'[k].status = jobs[k].status
                \/ <<jobs[k].status, jobs'[k].status>> \in Edges]_vars

\* a job ran the whole path pending -> queued -> running -> completed
C1_Witness ==
    /\ last.op = "complete_job"
    /\ last.outcome = "ok"
    /\ jobs[last.job_id[1]].status = COMPLETED
    /\ jobs[last.job_id[1]].started_at # None

\* C2: a transition operation on a stored job whose status does not permit
\* it raises JobStateError carrying from_state = the job's status and
\* to_state = the operation's target, and leaves every job record, the
\* queue and the handler invocations as they were.
C2_RejectedTransition ==
    [][\A k \in JobIds :
          (TransitionCall(k) /\ k \in DOMAIN jobs
              /\ <<jobs[k].status, Target(last'.op)>> \notin Edges) =>
                /\ last'.outcome = "JobStateError"
                /\ last'.from_state = Some(jobs[k].status)
                /\ last'.to_state = Some(Target(last'.op))
                /\ UNCHANGED <<jobs, keys, queue, delivered>>]_vars

\* complete_job on a job that is still queued was rejected, with a handler
\* subscribed
C2_Witness ==
    /\ last.op = "complete_job"
    /\ last.outcome = "JobStateError"
    /\ last.from_state = Some(QUEUED)
    /\ InSeq(queue, last.job_id[1])
    /\ event_handlers # <<>>

\* C3: get_job and the five transition operations on an id that is not in
\* the store raise JobNotFoundError and leave the store, the queue and the
\* running flag unchanged, invoking no handler.
C3_NotFound ==
    [][\A k \in JobIds :
          (last' # last /\ last'.op \in TransitionOps \cup {"get_job"}
              /\ last'.job_id = Some(k) /\ k \notin DOMAIN jobs) =>
                /\ last'.outcome = "JobNotFoundError"
                /\ UNCHANGED <<jobs, keys, queue, is_running, delivered>>]_vars

\* cancel_job on an absent id, while another job is queued and a handler
\* is subscribed
C3_Witness ==
    /\ last.op = "cancel_job"
    /\ last.outcome = "JobNotFoundError"
    /\ last.job_id[1] \notin DOMAIN jobs
    /\ queue # <<>>
    /\ is_running
    /\ event_handlers # <<>>

\* C4: while a job whose status is completed, failed or cancelled stays in
\* the store, every transition operation on it raises JobStateError and
\* its status, result, error, started_at and completed_at do not change.
C4_TerminalIsFinal ==
    [][\A k \in JobIds :
          (k \in DOMAIN jobs /\ jobs[k].status \in Terminal) =>
                /\ TransitionCall(k) => last'.outcome = "JobStateError"
                /\ SameJob(k) =>
                      /\ jobs'[k].status = jobs[k].status
                      /\ jobs'[k].result = jobs[k].result
                      /\ jobs'[k].error = jobs[k].error
                      /\ jobs'[k].started_at = jobs[k].started_at
                      /\ jobs'[k].completed_at = jobs[k].completed_at]_vars

\* submit_job on a failed job was rejected
C4_Witness ==
    /\ last.op = "submit_job"
    /\ last.outcome = "JobStateError"
    /\ last.from_state = Some(FAILED)
    /\ jobs[last.job_id[1]].status = FAILED
    /\ jobs[last.job_id[1]].error # None

\* C5: every job a successful create_job stores is pending, has no
\* started_at, completed_at, result or error, and is not in the queue.
C5_CreatedPending ==
    (last.op = "create_job" /\ last.outcome = "ok") =>
        /\ jobs[last.ret[1]].status = PENDING
        /\ jobs[last.ret[1]].started_at = None
        /\ jobs[last.ret[1]].completed_at = None
        /\ jobs[last.ret[1]].result = None
        /\ jobs[last.ret[1]].error = None
        /\ ~InSeq(queue, last.ret[1])

\* C6: a successful create_job adds exactly one record, under an id that
\* was not in the store, and leaves every record that was there as it was.
C6_UniqueId ==
    [][\A k \in JobIds :
          Constructed(k) =>
                /\ k \notin DOMAIN jobs
                /\ DOMAIN jobs' = DOMAIN jobs \cup {k}
                /\ \A j \in DOMAIN jobs : jobs'[j] = jobs[j]]_vars

\* C7: create_job on a manager that is not running raises JobStateError,
\* stores no job, leaves the queue unchanged and invokes no handler.
C7_CreateWhenStopped ==
    [][(last' # last /\ last'.op = "create_job" /\ ~is_running) =>
          /\ last'.outcome = "JobStateError"
          /\ UNCHANGED <<jobs, keys, queue, delivered, is_running>>]_vars

\* create_job was rejected on a manager stopped after it had issued a job,
\* with a handler subscribed
C7_Witness ==
    /\ last.op = "create_job"
    /\ last.outcome = "JobStateError"
    /\ ~is_running
    /\ issued # {}
    /\ event_handlers # <<>>

\* C8: on a running manager, create_job with a name that is empty after
\* trimming raises the manager's validation error, stores nothing and
\* invokes no handler; with any other name the stored name is the name
\* trimmed.
C8_NameValidation ==
    [][(last' # last /\ last'.op = "create_job" /\ is_running) =>
          IF strip(last'.name[1]) = <<>>
          THEN /\ last'.outcome = "JobValidationError"
               /\ UNCHANGED <<jobs, keys, queue, delivered>>
          ELSE last'.outcome = "ok" => jobs'[last'.ret[1]].name = strip(last'.name[1])]_vars

\* C9: every error a manager operation raises is JobNotFoundError,
\* JobValidationError or JobStateError.
C9_ErrorKinds ==
    last.outcome # "ok" =>
        /\ last.outcome \in {"JobNotFoundError", "JobValidationError", "JobStateError"}
        /\ last.outcome \in JobManagerError

\* C10: a stored job has a started_at exactly when start_job succeeded on
\* it: none while pending, queued or cancelled, one while running or
\* completed, and started_at is set by a successful start_job only.
C10_StartedAt ==
    [][\A k \in JobIds :
          /\ k \in DOMAIN jobs' =>
                /\ jobs'[k].status \in {PENDING, QUEUED, CANCELLED} => jobs'[k].started_at = None
                /\ jobs'[k].status \in {RUNNING, COMPLETED} => jobs'[k].started_at # None
          /\ Constructed(k) => jobs'[k].started_at = None
          /\ SameJob(k) =>
                (jobs'[k].started_at # jobs[k].started_at) <=>
                    (TransitionCall(k) /\ last'.op = "start_job" /\ last'.outcome = "ok")]_vars

\* C11: a stored job has a completed_at exactly when its status is
\* completed, failed or cancelled.
C11_CompletedAt ==
    \A k \in DOMAIN jobs : (jobs[k].completed_at # None) <=> (jobs[k].status \in Terminal)

\* C12: a stored job has a result only while completed and an error only
\* while failed; a successful complete_job(id, r) leaves the job's result
\* equal to r and a successful fail_job(id, e) leaves its error equal to e.
C12_ResultAndError ==
    [][\A k \in JobIds :
          /\ k \in DOMAIN jobs' =>
                /\ jobs'[k].result # None => jobs'[k].status = COMPLETED
                /\ jobs'[k].error # None => jobs'[k].status = FAILED
          /\ (TransitionCall(k) /\ last'.outcome = "ok" /\ last'.op = "complete_job") =>
                jobs'[k].result = last'.arg
          /\ (TransitionCall(k) /\ last'.outcome = "ok" /\ last'.op = "fail_job") =>
                jobs'[k].error = last'.arg]_vars

\* C13: whenever get_next_job returns a job, it is the job whose successful
\* submit_job is the earliest among the jobs that are queued.
C13_Fifo ==
    [][(Called /\ last'.op = "get_next_job" /\ last'.ret # <<>>) =>
          /\ fifo # <<>>
          /\ last'.ret[1] = Head(fifo)]_vars

\* C14: get_next_job drops every queue entry ahead of the first one whose
\* job is stored and queued and returns that job, or empties the queue
\* and returns nothing when there is none; it changes no job record and
\* never returns a job that is not queued.
C14_StaleEntries ==
    [][(last' # last /\ last'.op = "get_next_job") =>
          LET valid == {i \in 1..Len(queue) :
                            queue[i] \in DOMAIN jobs /\ jobs[queue[i]].status = QUEUED}
          IN /\ IF valid = {}
                THEN queue' = <<>> /\ last'.ret = <<>>
                ELSE LET first == CHOOSE i \in valid : \A j \in valid : i <= j
                     IN /\ queue' = SubSeq(queue, first, Len(queue))
                        /\ last'.ret = <<queue[first]>>
             /\ jobs' = jobs
             /\ last'.ret # <<>> => jobs'[last'.ret[1]].status = QUEUED]_vars

\* C15: get_next_job raises nothing and returns a queued job or nothing,
\* whether the manager runs or not; on an empty queue it returns nothing
\* and changes no state.
C15_GetNextNeverFails ==
    [][(last' # last /\ last'.op = "get_next_job") =>
          /\ last'.outcome = "ok"
          /\ \/ last'.ret = <<>>
             \/ /\ last'.ret[1] \in DOMAIN jobs'
                /\ jobs'[last'.ret[1]].status = QUEUED
          /\ queue = <<>> =>
                /\ last'.ret = <<>>
                /\ UNCHANGED <<is_running, jobs, keys, queue, event_handlers, delivered,
                               issued>>]_vars

\* C16: stop() raises nothing and leaves the manager not running with an
\* empty store and an empty queue, so that no issued id is in the store;
\* stop() on a manager that is not running changes nothing.
C16_Stop ==
    [][(last' # last /\ last'.op = "stop") =>
          /\ last'.outcome = "ok"
          /\ ~is_running'
          /\ DOMAIN jobs' = {}
          /\ keys' = <<>>
          /\ queue' = <<>>
          /\ \A k \in issued : k \notin DOMAIN jobs'
          /\ ~is_running => UNCHANGED <<is_running, jobs, keys, queue, event_handlers>>]_vars

\* stop() returned on a manager that had issued jobs
C16_Witness ==
    /\ last.op = "stop"
    /\ last.outcome = "ok"
    /\ issued = JobIds
    /\ DOMAIN jobs = {}
    /\ queue = <<>>
    /\ ~is_running

\* C17: start() raises nothing, leaves the manager running and leaves the
\* store, the queue and the subscriber list as they were, whether the
\* manager was running or not.
C17_StartIdempotent ==
    [][(last' # last /\ last'.op = "start") =>
          /\ last'.outcome = "ok"
          /\ is_running'
          /\ UNCHANGED <<jobs, keys, queue, event_handlers>>]_vars

\* start() returned on a manager that holds a queued job and a subscriber
C17_Witness ==
    /\ last.op = "start"
    /\ last.outcome = "ok"
    /\ is_running
    /\ queue # <<>>
    /\ DOMAIN jobs # {}
    /\ event_handlers # <<>>

\* C18: a stored job stays in the store under its id through every
\* operation other than stop().
C18_StaysUntilStop ==
    [][\A k \in DOMAIN jobs : last'.op # "stop" => SameJob(k)]_vars

\* the number of entries of q that are x
Count(q, x) == Cardinality({i \in 1..Len(q) : q[i] = x})

\* C19: when submit_job of a pending job b runs while a submit_job of
\* another job a, pending when it was called, is parked at its handlers,
\* both calls succeed, both jobs are queued, the queue holds each of the
\* two ids exactly once, and no other record or queue entry changes.
C19_ConcurrentSubmit ==
    [][\A a \in JobIds, b \in JobIds, i \in DOMAIN suspended :
          (/\ a # b
           /\ suspended[i].call.op = "submit_job"
           /\ suspended[i].call.job_id = Some(a)
           /\ a \in DOMAIN jobs /\ jobs[a].status = QUEUED
           /\ b \in DOMAIN jobs /\ jobs[b].status = PENDING
           /\ TransitionCall(b) /\ last'.op = "submit_job") =>
                /\ suspended[i].call.outcome = "ok"
                /\ last'.outcome = "ok"
                /\ jobs'[a].status = QUEUED
                /\ jobs'[b].status = QUEUED
                /\ Count(queue', a) = 1
                /\ Count(queue', b) = 1
                /\ queue' = Append(queue, b)
                /\ DOMAIN jobs' = DOMAIN jobs
                /\ \A k \in DOMAIN jobs \ {b} : jobs'[k] = jobs[k]]_vars

\* the pairs (winner, loser) of conflicting transitions on one job
Conflicts ==
    {<<"submit_job", "submit_job">>, <<"start_job", "start_job">>,
     <<"start_job", "cancel_job">>, <<"cancel_job", "start_job">>,
     <<"complete_job", "complete_job">>}

\* C20: when a transition on job k runs while a conflicting transition on
\* k that succeeded is parked at its handlers, the second call raises
\* JobStateError whose from_state is the winner's target status, the job
\* keeps that status and its id is in the queue at most once.
C20_ConflictingTransitions ==
    [][\A k \in JobIds, i \in DOMAIN suspended :
          (/\ suspended[i].call.job_id = Some(k)
           /\ suspended[i].call.op \in TransitionOps
           /\ TransitionCall(k)
           /\ <<suspended[i].call.op, last'.op>> \in Conflicts
           /\ k \in DOMAIN jobs
           /\ jobs[k].status = Target(suspended[i].call.op)) =>
                /\ suspended[i].call.outcome = "ok"
                /\ last'.outcome = "JobStateError"
                /\ last'.from_state = Some(Target(suspended[i].call.op))
                /\ jobs'[k].status = Target(suspended[i].call.op)
                /\ Count(queue', k) <= 1]_vars

\* C21: what a caller does with a Job a manager operation returned, between
\* the manager's operations, changes no record of the store (nor the
\* queue, nor the running flag).
C21_NoHandle ==
    [][(last' = last) => UNCHANGED <<jobs, keys, queue, is_running>>]_vars

\* the handlers in the subscriber list
Subscribed == {event_handlers[i] : i \in DOMAIN event_handlers}

\* the types of the events about job_id that handler received, in order
TypesAbout(handler, job_id) ==
    LET about == SelectSeq(received[handler], LAMBDA e : e.job_id = job_id)
    IN [i \in 1..Len(about) |-> about[i].type]

\* C22: subscribers registered over the same period have received the same
\* number of events, and once a job went through create_job, submit_job,
\* start_job and complete_job each subscriber has received exactly the four
\* events job_created, job_queued, job_started, job_completed about it, in
\* that order (timestamps, read from the loop's monotonic clock, are not
\* part of the model).
C22_FanOut ==
    /\ \A h1 \in Subscribed, h2 \in Subscribed : Len(received[h1]) = Len(received[h2])
    /\ \A k \in DOMAIN jobs, h \in Subscribed :
          (Ready /\ jobs[k].status = COMPLETED) =>
              TypesAbout(h, k) = <<"job_created", "job_queued", "job_started", "job_completed">>

\* the step runs the handlers of the call in progress
HandlersRan == received' # received

C24_AtMostOnce ==
    [][\A h \in Subscribers :
          /\ Cardinality({i \in DOMAIN delivered' : delivered'[i].handler = h}) <= 1
          /\ Len(received'[h]) <= Len(received[h]) + 1]_vars

\* the operations that publish an event, and the type each publishes
LifecycleOps == TransitionOps \cup {"create_job"}

EventType(op) ==
    CASE op = "create_job" -> "job_created"
      [] op = "submit_job" -> "job_queued"
      [] op = "start_job" -> "job_started"
      [] op = "complete_job" -> "job_completed"
      [] op = "fail_job" -> "job_failed"
      [] op = "cancel_job" -> "job_cancelled"

\* C25: a successful create_job, submit_job, start_job, complete_job,
\* fail_job or cancel_job hands every subscriber one and the same event, of
\* the operation's type and about the affected job, carrying the result
\* given to complete_job or the error given to fail_job; a failing
\* operation and start, stop, get_job, list_jobs, get_next_job (and the
\* subscription calls) invoke no handler.
C25_OneEventPerOperation ==
    [][Called =>
          IF last'.outcome = "ok" /\ last'.op \in LifecycleOps
          THEN /\ Len(delivered') = Len(event_handlers)
               /\ \A i \in DOMAIN delivered' :
                     /\ delivered'[i].handler = event_handlers[i]
                     /\ delivered'[i].type = EventType(last'.op)
                     /\ delivered'[i].job_id = last'.job_id[1]
                     /\ delivered'[i].data =
                            (IF last'.op \in {"complete_job", "fail_job"} THEN last'.arg
                                                                           ELSE None)
          ELSE delivered' = <<>>]_vars

\* fail_job succeeded and its handler was handed job_failed with the error
C25_Witness ==
    /\ last.op = "fail_job"
    /\ last.outcome = "ok"
    /\ delivered # <<>>
    /\ delivered[1].type = "job_failed"
    /\ delivered[1].job_id = last.job_id[1]
    /\ delivered[1].data = last.arg
    /\ last.arg # None


\* ---- C26: list_jobs(status, limit, offset) returns exactly the stored
\* jobs whose status equals the filter (all jobs when there is no filter),
\* ordered by created_at descending, the first `offset` of them skipped and
\* at most `limit` of the remainder returned (all of it when limit is None)
Matching(status) ==
    {k \in DOMAIN jobs : status = None \/ jobs[k].status = status[1]}

Newer(status, k) ==
    Cardinality({m \in Matching(status) : jobs[m].created_at > jobs[k].created_at})

NotOlder(status, k) ==
    Cardinality({m \in Matching(status) : jobs[m].created_at >= jobs[k].created_at})

PageLength(status, limit, offset) ==
    LET remainder == IF Cardinality(Matching(status)) > offset
                     THEN Cardinality(Matching(status)) - offset ELSE 0
    IN IF limit = None \/ limit[1] > remainder THEN remainder ELSE limit[1]

IsPage(ret, status, limit, offset) ==
    /\ Len(ret) = PageLength(status, limit, offset)
    /\ \A i \in DOMAIN ret : ret[i] \in Matching(status)
    /\ \A i, j \in DOMAIN ret : i # j => ret[i] # ret[j]
    /\ \A i, j \in DOMAIN ret : i < j => jobs[ret[i]].created_at >= jobs[ret[j]].created_at
    /\ \A i \in DOMAIN ret :
          /\ Newer(status, ret[i]) <= offset + i - 1
          /\ NotOlder(status, ret[i]) >= offset + i

C26_ListJobs ==
    (last.op = "list_jobs" /\ last.arg # None)
        => /\ last.outcome = "ok"
           /\ IsPage(last.ret, last.arg[1][1], last.arg[1][2], last.arg[1][3])

\* five jobs created at five different times, offset 2 and limit 2: the
\* third and the fourth newest are returned
C26_Witness ==
    /\ last.op = "list_jobs"
    /\ last.arg = Some(<<None, Some(2), 2>>)
    /\ Cardinality(DOMAIN jobs) = 5
    /\ \A k, m \in DOMAIN jobs : k # m => jobs[k].created_at # jobs[m].created_at
    /\ \A k \in DOMAIN jobs : jobs[k].status = PENDING
    /\ Len(last.ret) = 2
    /\ Newer(None, last.ret[1]) = 2
    /\ Newer(None, last.ret[2]) = 3


\* ---- C27: no manager operation changes the id, name, job_type, payload
\* or created_at of a job that is in the store: the five transitions,
\* get_next_job, the read operations and create_job of another job leave
\* these five fields of every stored job as they were
C27_FieldsKept ==
    [][\A k \in JobIds :
          SameJob(k) =>
              /\ jobs'[k].id = jobs[k].id
              /\ jobs'[k].name = jobs[k].name
              /\ jobs'[k].job_type = jobs[k].job_type
              /\ jobs'[k].payload = jobs[k].payload
              /\ jobs'[k].created_at = jobs[k].created_at]_vars

\* create_job of another job has returned while a job that went through
\* submit_job, start_job and fail_job is stored
C27_Witness ==
    /\ last.op = "create_job"
    /\ last.outcome = "ok"
    /\ \E k \in DOMAIN jobs :
          /\ Some(k) # last.job_id
          /\ jobs[k].status = FAILED
          /\ jobs[k].started_at # None
          /\ jobs[k].id = k
          /\ jobs[k].payload \in Payloads


\* ---- C28: each JobManagerFactory.create(MEMORY) returns a new manager
\* that is not running and has an empty store, an empty queue and no
\* subscribers, and no operation on one manager changes the running flag,
\* store, queue or subscribers of another: the other instances change only
\* by the factory adding the instance the caller leaves, or by the caller
\* turning to one of them, as they are
C28_Instances ==
    [][/\ (Called /\ last'.op = "create") =>
             /\ ~is_running'
             /\ jobs' = EmptyStore
             /\ queue' = <<>>
             /\ event_handlers' = <<>>
             /\ others' = Append(others, Current)
       /\ (others' # others) =>
             \/ Called /\ last'.op = "create"
             \/ \E i \in DOMAIN others :
                   /\ others' = [others EXCEPT ![i] = Current]
                   /\ Current' = others[i]]_vars

\* an operation on the second instance has returned while the first is
\* running with a job stored and a subscriber
C28_Witness ==
    /\ Len(others) = 1
    /\ others[1].is_running
    /\ others[1].jobs # EmptyStore
    /\ others[1].event_handlers # <<>>
    /\ last.op = "cancel_job"
    /\ last.outcome = "ok"
    /\ DOMAIN jobs \cap DOMAIN others[1].jobs = {}


\* ---- C29: in every state a caller or a handler can observe, the points
\* where an operation waits for its handlers included, the queue holds
\* exactly the ids of the stored jobs whose status is queued, each once,
\* in the order of their successful submit_job calls; start_job, fail_job
\* and cancel_job of a queued job remove that id alone and keep the order
\* of the others
QueuedIds == {k \in DOMAIN jobs : jobs[k].status = QUEUED}

C29_QueueIsIndex ==
    [][/\ {queue'[i] : i \in DOMAIN queue'} = QueuedIds'
       /\ \A k \in JobIds : Count(queue', k) <= 1
       /\ queue' = fifo'
       /\ \A k \in JobIds :
             (/\ TransitionCall(k)
              /\ last'.outcome = "ok"
              /\ last'.op \in {"start_job", "fail_job", "cancel_job"}
              /\ jobs[k].status = QUEUED) => queue' = remove(queue, k)]_vars


\* ---- C30: get_next_job terminates: a call discards at most as many
\* stale entries (one per nested retry) as the queue has entries when it
\* is called, every discard shortens the queue by one, and on a queue of
\* stale entries only it ends with the queue empty and nothing returned
Stale(k) == ~valid_head(k)

C30_Terminates ==
    [][(Called /\ last'.op = "get_next_job") =>
          /\ last'.outcome = "ok"
          /\ last'.discarded <= Len(queue)
          /\ Len(queue') = Len(queue) - last'.discarded
          /\ \A i \in 1..last'.discarded : Stale(queue[i])
          /\ (\A i \in DOMAIN queue : Stale(queue[i])) =>
                /\ last'.discarded = Len(queue)
                /\ queue' = <<>>
                /\ last'.ret = <<>>]_vars


\* ---- C31: when start_job is only called by workers, each on the job its
\* latest get_next_job call returned, the jobs enter status running in the
\* order of their submit_job calls: the job a worker starts is the one
\* submitted earliest among the jobs still queued
C31_ProcessingOrder ==
    [][\A k \in JobIds :
          (TransitionCall(k) /\ last'.op = "start_job" /\ last'.outcome = "ok") =>
              /\ fifo # <<>>
              /\ k = Head(fifo)]_vars


\* ---- C32: when a handler is invoked with an event, the store and the
\* queue already show the whole transition the event reports: the job of
\* job_created is stored, that of job_queued is queued and in the queue,
\* that of job_started is running with started_at set and out of the
\* queue, that of job_completed / job_failed / job_cancelled is in that
\* status with completed_at (and result / error) set and out of the queue
Reflected(event) ==
    /\ event.job_id \in DOMAIN jobs
    /\ LET job == jobs[event.job_id] IN
       CASE event.type = "job_created" -> job.id = event.job_id
         [] event.type = "job_queued" ->
                job.status = QUEUED /\ InSeq(queue, event.job_id)
         [] event.type = "job_started" ->
                job.status = RUNNING /\ job.started_at # None /\ ~InSeq(queue, event.job_id)
         [] event.type = "job_completed" ->
                job.status = COMPLETED /\ job.completed_at # None /\ job.result = event.data
         [] event.type = "job_failed" ->
                /\ job.status = FAILED /\ job.completed_at # None /\ job.error = event.data
                /\ ~InSeq(queue, event.job_id)
         [] event.type = "job_cancelled" ->
                job.status = CANCELLED /\ job.completed_at # None /\ ~InSeq(queue, event.job_id)

Running(invocations) == {i \in DOMAIN invocations : invocations[i].state = "invoked"}

Pending == ~Ready \/ suspended # <<>>

C33_Visible ==
    /\ \A i \in Running(delivered) : Reflected(EventOf(delivered[i]))
    /\ \A c \in DOMAIN suspended : \A i \in Running(suspended[c].delivered) :
          Reflected(EventOf(suspended[c].delivered[i]))

C33_Siblings ==
    /\ delivered # <<>> => Len(delivered) = Len(event_handlers)
    /\ \A i \in Running(delivered) : ENABLED HandlerEnds(i, FALSE)

C33_OtherCallers ==
    \A c \in DOMAIN suspended, k \in JobIds :
        (/\ Running(suspended[c].delivered) # {}
         /\ suspended[c].call.job_id # Some(k)
         /\ TransitionCall(k) /\ last'.op = "submit_job"
         /\ k \in DOMAIN jobs /\ jobs[k].status = PENDING)
            => last'.outcome = "ok" /\ jobs'[k].status = QUEUED

C33_NotBlocking ==
    /\ [](C33_Visible /\ C33_Siblings)
    /\ [][C33_OtherCallers]_vars
    /\ (Pending ~> ~Pending)

\* a call waits for its first handler, its second handler has finished, and
\* another caller's submit_job of another job has succeeded meanwhile
C33_Witness ==
    /\ Len(suspended) = 1
    /\ Len(suspended[1].delivered) = 2
    /\ suspended[1].delivered[1].state = "invoked"
    /\ suspended[1].delivered[2].state = "done"
    /\ last.op = "submit_job"
    /\ last.outcome = "ok"
    /\ last.job_id # suspended[1].call.job_id


\* ---- C34: after unsubscribe_from_events(h) has returned, h is invoked
\* for no event published afterwards, whatever subscribe_to_events calls
\* came before: h is no longer among the subscribers, and events go to the
\* subscribers only; unsubscribing a handler that is not subscribed raises
\* nothing and leaves the subscribers as they are
C34_Unsubscribed ==
    [][/\ \A h \in Subscribers :
             UnsubscribeFromEvents(h) =>
                 /\ last'.outcome = "ok"
                 /\ ~InSeq(event_handlers', h)
                 /\ ~InSeq(event_handlers, h) => event_handlers' = event_handlers
       /\ Called => \A i \in DOMAIN delivered' : InSeq(event_handlers, delivered'[i].handler)]_vars


\* ---- C35: get_next_job only peeks: it takes out of the queue no id whose
\* job is queued and changes no job record, so a second get_next_job with
\* no transition in between returns the same job and leaves the queue as
\* the first call left it; two workers polling concurrently can both be
\* handed the same job
C35_Peek ==
    [][(Called /\ last'.op = "get_next_job") =>
          /\ jobs' = jobs
          /\ \E n \in 0..Len(queue) :
                /\ queue' = SubSeq(queue, n + 1, Len(queue))
                /\ \A i \in 1..n : ~valid_head(queue[i])
          /\ last'.outcome = "ok" =>
                /\ last'.ret # <<>> => queue' # <<>> /\ Head(queue') = last'.ret[1]
                /\ next_job(queue').ret = last'.ret
                /\ next_job(queue').queue = queue']_vars

\* two workers hold the same job, which is still queued and in the queue
C35_Witness ==
    /\ last.op = "get_next_job"
    /\ held["w1"] # <<>>
    /\ held["w1"] = held["w2"]
    /\ jobs[held["w1"][1]].status = QUEUED
    /\ Head(queue) = held["w1"][1]


\* ---- C36: in every reachable state, states where a create_job or a
\* transition waits in event dispatch while another caller runs stop()
\* included, a manager that is not running has an empty store and an
\* empty queue; so every submit_job, start_job, complete_job, fail_job and
\* cancel_job called while the manager is stopped raises JobNotFoundError
\* and changes nothing
StoppedEmpty == ~is_running => jobs = EmptyStore /\ queue = <<>>

C36_StoppedEmpty ==
    /\ []StoppedEmpty
    /\ [][(Called /\ ~is_running /\ last'.op \in TransitionOps) =>
             /\ last'.outcome = "JobNotFoundError"
             /\ UNCHANGED <<is_running, jobs, queue>>]_vars

\* a transition has failed on a stopped manager while a call that stored
\* or changed a job before the stop still waits for its handlers
C36_Witness ==
    /\ ~is_running
    /\ suspended # <<>>
    /\ suspended[1].call.op \in TransitionOps \cup {"create_job"}
    /\ suspended[1].call.outcome = "ok"
    /\ last.op \in TransitionOps
    /\ last.outcome = "JobNotFoundError"


\* ---- C37: under concurrent callers the events about a job are handed to
\* each subscriber (the handler invocations are made) in the order in which
\* the job's transitions were applied to the store: the step that applies a
\* transition makes the invocations of its event, for every subscriber, and
\* the event's type is that of the status change applied (job_queued on
\* pending to queued, job_started on queued to running, job_completed /
\* job_failed after these); a call that waits for its handlers or resumes
\* applies no transition and makes no invocation, so interleaving at the
\* suspension points reorders nothing
Applied(job_id, type) ==
    /\ job_id \in DOMAIN jobs'
    /\ CASE type = "job_created" -> last'.op = "create_job"
         [] type = "job_queued" ->
                job_id \in DOMAIN jobs /\ jobs[job_id].status = PENDING
                                        /\ jobs'[job_id].status = QUEUED
         [] type = "job_started" ->
                job_id \in DOMAIN jobs /\ jobs[job_id].status = QUEUED
                                        /\ jobs'[job_id].status = RUNNING
         [] type = "job_completed" ->
                job_id \in DOMAIN jobs /\ jobs[job_id].status = RUNNING
                                        /\ jobs'[job_id].status = COMPLETED
         [] type = "job_failed" ->
                job_id \in DOMAIN jobs /\ jobs[job_id].status \in {RUNNING, QUEUED}
                                        /\ jobs'[job_id].status = FAILED
         [] type = "job_cancelled" ->
                job_id \in DOMAIN jobs /\ jobs[job_id].status \in {PENDING, QUEUED}
                                        /\ jobs'[job_id].status = CANCELLED

\* the job under job_id is stored or its status changes in this step
Touched(job_id) ==
    /\ job_id \in DOMAIN jobs'
    /\ job_id \in DOMAIN jobs => jobs'[job_id].status # jobs[job_id].status

\* the invocations made and not yet returned from, call by call
InFlight == {delivered} \cup {suspended[i].delivered : i \in DOMAIN suspended}

C37_InOrder ==
    [][/\ \A job_id \in JobIds :
             Touched(job_id) =>
                /\ Called
                /\ last'.outcome = "ok"
                /\ last'.job_id = Some(job_id)
                /\ Len(delivered') = Len(event_handlers)
                /\ \A i \in DOMAIN delivered' :
                      /\ delivered'[i].handler = event_handlers[i]
                      /\ delivered'[i].job_id = job_id
                      /\ delivered'[i].type = EventType(last'.op)
       /\ Called => \A i \in DOMAIN delivered' :
                       Applied(delivered'[i].job_id, delivered'[i].type)
       /\ ~Called => jobs' = jobs /\ InFlight' \subseteq InFlight \cup {<<>>}]_vars

\* start_job has just invoked the handler with job_started for a job whose
\* submit_job still waits for the handler it invoked with job_queued
C37_Witness ==
    /\ suspended # <<>>
    /\ suspended[1].call.op = "submit_job"
    /\ suspended[1].delivered # <<>>
    /\ suspended[1].delivered[1].type = "job_queued"
    /\ delivered # <<>>
    /\ delivered[1].type = "job_started"
    /\ delivered[1].job_id = suspended[1].delivered[1].job_id
    /\ delivered[1].handler = suspended[1].delivered[1].handler


\* ---- C38: subscriptions do not depend on the running state:
\* subscribe_to_events succeeds and adds the handler whether or not the
\* manager is running, neither start() nor stop() changes the subscriber
\* list, and a successful create_job invokes every subscribed handler with
\* job_created; so a handler subscribed before start() or before a stop()
\* and start() receives the events of the jobs created afterwards
C38_Subscriptions ==
    [][Called =>
          /\ last'.op = "subscribe_to_events" =>
                /\ last'.outcome = "ok"
                /\ Len(event_handlers') = Len(event_handlers) + 1
                /\ SubSeq(event_handlers', 1, Len(event_handlers)) = event_handlers
          /\ last'.op \in {"start", "stop"} =>
                /\ last'.outcome = "ok"
                /\ event_handlers' = event_handlers
          /\ (last'.op = "create_job" /\ last'.outcome = "ok") =>
                \A h \in Subscribers :
                    InSeq(event_handlers, h) =>
                       \E i \in DOMAIN delivered' :
                           /\ delivered'[i].handler = h
                           /\ delivered'[i].type = "job_created"
                           /\ delivered'[i].job_id = last'.job_id[1]]_vars

\* a job created after a stop() and start() (the store holds fewer jobs
\* than were created) is handed to both subscribed handlers
C38_Witness ==
    /\ last.op = "create_job"
    /\ last.outcome = "ok"
    /\ Cardinality(issued) > Cardinality(DOMAIN jobs)
    /\ \A h \in Subscribers :
          \E i \in DOMAIN delivered :
              delivered[i].handler = h /\ delivered[i].job_id = last.job_id[1]

====
